---- MODULE Spec2Model ----
(***************************************************************************)
(* Model of uswitch/blitz: the webpack configuration factory               *)
(* (config/createConfig.js), the Babel preset it loads (babel.js) and the  *)
(* dev orchestration script that drives both.                              *)
(*                                                                         *)
(* Two specifications:                                                     *)
(*   Spec         the dev orchestration script, one action per statement   *)
(*   FactorySpec  a process that calls the factory repeatedly, for every   *)
(*                target, env and options                                  *)
(***************************************************************************)
EXTENDS Integers, Sequences, FiniteSets, TLC

VARIABLES
  env,            \* process.env: NODE_ENV, BABEL_ENV, PORT
  babelModule,    \* require cache entry of ../babel (Undefined = not loaded)
  pc,             \* position of the dev orchestration script
  blitz,          \* the script's `blitz` object
  clientConfig,   \* the script's clientConfig
  serverConfig,   \* the script's serverConfig
  serverCompiler, \* the script's serverCompiler
  clientCompiler, \* the script's clientCompiler
  clientDevServer,\* the script's clientDevServer
  listenPort,     \* the port handed to clientDevServer.listen
  firstCompile,   \* which of the two bundles finished its first compile
  configFile,     \* what became of the user config file: unknown, missing,
                  \* invalid (its require threw) or loaded
  exitCode,       \* the exit code of the process, 0 while it runs
  trace,          \* the calls made so far, in order
  calls,          \* FactorySpec: number of factory calls made
  lastCall,       \* FactorySpec: arguments and environment of the last call
  result          \* FactorySpec: outcome of the last call

vars == <<env, babelModule, pc, blitz, clientConfig, serverConfig,
          serverCompiler, clientCompiler, clientDevServer, listenPort,
          firstCompile, configFile, exitCode, trace, calls, lastCall, result>>

scriptVars == <<pc, blitz, clientConfig, serverConfig, serverCompiler,
                clientCompiler, clientDevServer, listenPort, firstCompile,
                configFile, exitCode, trace>>

factoryVars == <<calls, lastCall, result>>

(***************************************************************************)
(* Bounds of the model                                                     *)
(***************************************************************************)
\* number of factory calls one FactorySpec behaviour makes
MaxCalls == 2

\* the values process.env.PORT takes, as sequences of characters: a port, a
\* port in hexadecimal, zero, a negative number and a string that is no
\* number; <<>> is an unset (or empty) variable: both are falsy in the two
\* places PORT is read
PortStrings ==
  { <<>>, <<"8", "0", "8", "0">>, <<"0", "x", "1", "F">>, <<"0">>,
    <<"-", "1">>, <<"x">> }

\* the values of NODE_ENV and BABEL_ENV; "" is an unset (or empty) variable
EnvUnset == ""
EnvFlags == {EnvUnset, "development", "test", "production", "staging"}

(***************************************************************************)
(* JavaScript values                                                       *)
(***************************************************************************)
Undefined == [t |-> "undefined"]
NaN == [t |-> "NaN"]
JNum(n) == [t |-> "number", n |-> n]
JStr(s) == [t |-> "string", s |-> s]
JBool(b) == [t |-> "boolean", b |-> b]
\* a non-empty string that is only ever passed along, such as a host name
JText(s) == [t |-> "text", s |-> s]

\* JavaScript truthiness of the values above
Truthy(v) ==
  CASE v.t = "undefined" -> FALSE
    [] v.t = "NaN" -> FALSE
    [] v.t = "number" -> v.n # 0
    [] v.t = "string" -> v.s # <<>>
    [] v.t = "boolean" -> v.b
    [] OTHER -> TRUE

\* a || b
Or(a, b) == IF Truthy(a) THEN a ELSE b

\* n + 1 on numbers; NaN + 1 is NaN
PlusOne(v) == IF v.t = "number" THEN JNum(v.n + 1) ELSE NaN

Digits == <<"0", "1", "2", "3", "4", "5", "6", "7", "8", "9">>

\* decimal digits of a natural number, as JavaScript's ToString produces them
RECURSIVE NatToStr(_)
NatToStr(n) ==
  IF n < 10 THEN <<Digits[n + 1]>>
  ELSE Append(NatToStr(n \div 10), Digits[(n % 10) + 1])

\* JavaScript's ToString of a value, as a sequence of characters
JSToString(v) ==
  CASE v.t = "string" -> v.s
    [] v.t = "number" -> IF v.n < 0 THEN <<"-">> \o NatToStr(0 - v.n)
                         ELSE NatToStr(v.n)
    [] v.t = "NaN" -> <<"N", "a", "N">>
    [] OTHER -> <<"u", "n", "d", "e", "f", "i", "n", "e", "d">>

\* value of a character as a digit, 99 when it is none
DigitVal(c) ==
  CASE c = "0" -> 0 [] c = "1" -> 1 [] c = "2" -> 2 [] c = "3" -> 3
    [] c = "4" -> 4 [] c = "5" -> 5 [] c = "6" -> 6 [] c = "7" -> 7
    [] c = "8" -> 8 [] c = "9" -> 9
    [] c \in {"a", "A"} -> 10 [] c \in {"b", "B"} -> 11
    [] c \in {"c", "C"} -> 12 [] c \in {"d", "D"} -> 13
    [] c \in {"e", "E"} -> 14 [] c \in {"f", "F"} -> 15
    [] OTHER -> 99

RECURSIVE StripBlanks(_)
StripBlanks(s) ==
  IF s # <<>> /\ Head(s) = " " THEN StripBlanks(Tail(s)) ELSE s

\* the longest prefix of s made of digits of radix r, as <<count, value>>
RECURSIVE DigitPrefix(_, _, _, _)
DigitPrefix(s, r, count, acc) ==
  IF s = <<>> \/ DigitVal(Head(s)) >= r THEN <<count, acc>>
  ELSE DigitPrefix(Tail(s), r, count + 1, acc * r + DigitVal(Head(s)))

\* parseInt(v, radix); radix 0 stands for a call without a radix
ParseInt(v, radix) ==
  LET s0 == StripBlanks(JSToString(v))
      neg == s0 # <<>> /\ Head(s0) = "-"
      s1 == IF s0 # <<>> /\ Head(s0) \in {"-", "+"} THEN Tail(s0) ELSE s0
      hex == /\ radix \in {0, 16}
             /\ Len(s1) >= 2
             /\ s1[1] = "0"
             /\ s1[2] \in {"x", "X"}
      r == IF hex THEN 16 ELSE IF radix = 0 THEN 10 ELSE radix
      s2 == IF hex THEN Tail(Tail(s1)) ELSE s1
      p == DigitPrefix(s2, r, 0, 0)
  IN IF p[1] = 0 THEN NaN
     ELSE JNum(IF neg THEN 0 - p[2] ELSE p[2])

(***************************************************************************)
(* babel.js: the preset module                                             *)
(***************************************************************************)
ValidBabelEnvs == {"development", "test", "production"}

\* var env = process.env.BABEL_ENV || process.env.NODE_ENV
BabelEnv(penv) ==
  IF penv.BABEL_ENV # EnvUnset THEN penv.BABEL_ENV ELSE penv.NODE_ENV

\* the check reads NODE_ENV alone
BabelThrows_NodeEnvOnly(penv) == penv.NODE_ENV \notin ValidBabelEnvs

\* the module body throws when the flag is none of the three
BabelThrows(penv) == BabelEnv(penv) \notin ValidBabelEnvs

\* module.exports of babel.js, for a flag that passed the check
BabelPreset(penv) ==
  LET base == <<"transform-class-properties", "transform-object-rest-spread",
                "syntax-dynamic-import", "transform-runtime">>
      dev == IF BabelEnv(penv) = "development"
             THEN <<"transform-react-jsx-source">> ELSE <<>>
      prod == IF BabelEnv(penv) = "production"
              THEN <<"transform-react-remove-prop-types">> ELSE <<>>
  IN [presets |-> <<"babel-preset-env", "babel-preset-react">>,
      plugins |-> base \o dev \o prod]

(***************************************************************************)
(* config/env.js (not among the sources): the environment loader           *)
(***************************************************************************)
\* raw values: the process environment first, then the options, then the
\* built-in defaults
getEnv(target, options, penv) ==
  [raw |-> [NODE_ENV |-> penv.NODE_ENV,
            PORT |-> Or(Or(JStr(penv.PORT), options.port), JNum(3000)),
            HOST |-> Or(options.host, JText("localhost")),
            VERBOSE |-> FALSE]]

(***************************************************************************)
(* config/createConfig.js: the configuration factory                       *)
(***************************************************************************)
Targets == {"web", "node"}
Envs == {"dev", "prod"}

StyleLoader == [loader |-> "style-loader"]

loaders(minify) ==
  << [loader |-> "css-loader", options |-> [minimize |-> minify]],
     [loader |-> "postcss-loader", options |-> [ident |-> "postcss"]] >>

sassLoader == [loader |-> "sass-loader"]

\* ExtractTextPlugin.extract({fallback, use})
Extract(fallback, use) ==
  [kind |-> "extract", fallback |-> fallback, use |-> use]

Chain(ls) == [kind |-> "chain", use |-> ls]

\* the dev branch is taken before the node branch
scssLoadersSelector_DevFirst(IS_NODE, IS_DEV) ==
  IF IS_DEV THEN Chain(<<StyleLoader>> \o loaders(FALSE) \o <<sassLoader>>)
  ELSE IF IS_NODE THEN Chain(loaders(TRUE) \o <<sassLoader>>)
  ELSE Extract(StyleLoader, loaders(TRUE) \o <<sassLoader>>)

scssLoadersSelector(IS_NODE, IS_DEV) ==
  IF IS_NODE THEN Chain(loaders(TRUE) \o <<sassLoader>>)
  ELSE IF IS_DEV THEN Chain(<<StyleLoader>> \o loaders(FALSE) \o <<sassLoader>>)
  ELSE Extract(StyleLoader, loaders(TRUE) \o <<sassLoader>>)

\* the `use` of the .css rule
cssLoadersSelector(IS_NODE, IS_DEV) ==
  IF IS_NODE
  THEN Chain(<< [loader |-> "css-loader", options |-> [importLoaders |-> 1]] >>)
  ELSE IF IS_DEV THEN Chain(<<StyleLoader>> \o loaders(FALSE))
  ELSE Extract(StyleLoader, loaders(TRUE))

\* calling the factory with an options object whose keys are missing
NoOptions ==
  [clearConsole |-> Undefined, host |-> Undefined, port |-> Undefined,
   modify |-> "none"]

\* { clearConsole = true, host = 'localhost', port = 3000 }: the only keys
\* the factory reads; a default applies to an undefined key
OptionDefaults(options) ==
  [clearConsole |-> IF options.clearConsole = Undefined THEN JBool(TRUE)
                    ELSE options.clearConsole,
   host |-> IF options.host = Undefined THEN JText("localhost")
            ELSE options.host,
   port |-> IF options.port = Undefined THEN JNum(3000) ELSE options.port]

Plugin(name) == [plugin |-> name]

\* File name patterns and URLs are sequences of their parts, a placeholder
\* such as [name] being one part.
\* `http://${host}:${port}` and what follows it
Url(host, port, rest) == <<"http://", host, ":", port, rest>>

\* the whitelist without its .filter(x => x)
ExternalsWhitelist_NoFilter(IS_DEV) ==
  << IF IS_DEV THEN "webpack/hot/poll?300" ELSE "null",
     "\\.(eot|woff|woff2|ttf|otf)$",
     "\\.(svg|png|jpg|jpeg|gif|ico)$",
     "\\.(mp4|mp3|ogg|swf|webp)$",
     "\\.(css|scss|sass|sss|less)$" >>

\* the whitelist handed to nodeExternals
ExternalsWhitelist(IS_DEV) ==
  SelectSeq(<< IF IS_DEV THEN "webpack/hot/poll?300" ELSE "null",
               "\\.(eot|woff|woff2|ttf|otf)$",
               "\\.(svg|png|jpg|jpeg|gif|ico)$",
               "\\.(mp4|mp3|ogg|swf|webp)$",
               "\\.(css|scss|sass|sss|less)$" >>,
            LAMBDA x : x # "null")

\* the base configuration, before the target branches
BaseConfig(target, IS_NODE, IS_DEV, IS_PROD, mainBabelOptions) ==
  [context |-> "cwd",
   target |-> target,
   devtool |-> IF IS_PROD THEN "source-map" ELSE "cheap-eval-source-map",
   resolve |-> [modules |-> <<"node_modules", "appNodeModules", "NODE_PATH">>,
                extensions |-> <<".js", ".json", ".jsx">>,
                alias |-> <<"webpack/hot/poll", "react-native">>],
   resolveLoader |-> [modules |-> <<"appNodeModules", "ownNodeModules">>],
   module |-> [rules |-> <<
     [parser |-> "requireEnsure: false"],
     [test |-> JText("\\.jsx?$"), loader |-> "babel-loader",
      include |-> <<"appSrc">>, options |-> mainBabelOptions],
     [exclude |-> <<"html", "js|jsx", "ts|tsx", "vue", "less", "re", "s?css",
                    "json", "bmp", "gif", "jpe?g", "png">>,
      loader |-> "file-loader",
      options |-> [name |-> "static/media/[name].[hash:8].[ext]"]],
     [test |-> JText("bmp|gif|jpe?g|png|svg"), loader |-> "url-loader",
      options |-> [limit |-> 10000,
                   name |-> "static/media/[name].[hash:8].[ext]"]],
     [test |-> JText("\\.css$"), exclude |-> <<"appBuild">>,
      use |-> cssLoadersSelector(IS_NODE, IS_DEV)],
     [test |-> JText("\\.scss$"), exclude |-> <<"appBuild">>,
      use |-> scssLoadersSelector(IS_NODE, IS_DEV)] >>]]

\* if (IS_NODE) { ... }
NodeConfig(IS_DEV, dotenv, devServerPort) ==
  [node |-> "console, __filename, __dirname",
   externals |-> << [nodeExternals |->
                       [whitelist |-> ExternalsWhitelist(IS_DEV)]] >>,
   output |-> [path |-> "appBuild",
               publicPath |-> IF IS_DEV
                              THEN Url(dotenv.raw.HOST, devServerPort, "/")
                              ELSE <<"/">>,
               filename |-> <<"server.js">>],
   entry |-> IF IS_DEV THEN <<"webpack/hot/poll?300", "appServerIndexJs">>
             ELSE <<"appServerIndexJs">>,
   plugins |-> << Plugin("NamedModulesPlugin"), Plugin("DefinePlugin") >>
               \o (IF IS_DEV
                   THEN << Plugin("HotModuleReplacementPlugin"),
                           Plugin("NoEmitOnErrorsPlugin"),
                           Plugin("StartServerPlugin") >>
                   ELSE <<>>)]
  @@ (IF IS_DEV THEN [watch |-> TRUE] ELSE <<>>)

WebBasePlugins ==
  << Plugin("NamedModulesPlugin"), Plugin("AssetsPlugin"),
     Plugin("CommonsChunkPlugin") >>

\* the user's entry point pushed first instead of last
WebDevConfig_EntryFirst(dotenv, devServerPort) ==
  [entry |-> [client |-> << <<"appClientIndexJs">>,
                            Url(dotenv.raw.HOST, devServerPort,
                                "webpack-dev-server/client"),
                            <<"webpack/hot/dev-server">> >>],
   output |-> [path |-> "appBuildPublic",
               publicPath |-> Url(dotenv.raw.HOST, devServerPort, "/"),
               pathinfo |-> TRUE,
               filename |-> <<"static/js/", "[name]", ".js">>],
   devServer |-> [disableHostCheck |-> TRUE, clientLogLevel |-> "none",
                  compress |-> TRUE,
                  headers |-> <<"Access-Control-Allow-Origin: *">>,
                  historyApiFallback |-> [disableDotRule |-> TRUE],
                  host |-> dotenv.raw.HOST, hot |-> TRUE, noInfo |-> TRUE,
                  overlay |-> FALSE, port |-> devServerPort, quiet |-> TRUE,
                  watchOptions |-> [ignored |-> "node_modules"]],
   plugins |-> WebBasePlugins
               \o << Plugin("HotModuleReplacementPlugin"),
                     Plugin("NoEmitOnErrorsPlugin"),
                     Plugin("DefinePlugin") >>]

\* if (IS_WEB) { if (IS_DEV) { ... } }
WebDevConfig(dotenv, devServerPort) ==
  [entry |-> [client |-> << Url(dotenv.raw.HOST, devServerPort,
                                "webpack-dev-server/client"),
                            <<"webpack/hot/dev-server">>,
                            <<"appClientIndexJs">> >>],
   output |-> [path |-> "appBuildPublic",
               publicPath |-> Url(dotenv.raw.HOST, devServerPort, "/"),
               pathinfo |-> TRUE,
               filename |-> <<"static/js/", "[name]", ".js">>],
   devServer |-> [disableHostCheck |-> TRUE, clientLogLevel |-> "none",
                  compress |-> TRUE,
                  headers |-> <<"Access-Control-Allow-Origin: *">>,
                  historyApiFallback |-> [disableDotRule |-> TRUE],
                  host |-> dotenv.raw.HOST, hot |-> TRUE, noInfo |-> TRUE,
                  overlay |-> FALSE, port |-> devServerPort, quiet |-> TRUE,
                  watchOptions |-> [ignored |-> "node_modules"]],
   plugins |-> WebBasePlugins
               \o << Plugin("HotModuleReplacementPlugin"),
                     Plugin("NoEmitOnErrorsPlugin"),
                     Plugin("DefinePlugin") >>]

\* the production file name without its chunk hash
WebProdConfig_NoHash ==
  [entry |-> [client |-> << <<"appClientIndexJs">> >>],
   output |-> [path |-> "appBuildPublic",
               publicPath |-> <<"/">>,
               filename |-> <<"static/js/", "[name]", ".js">>,
               chunkFilename |-> <<"static/js/", "[name]", ".chunk.js">>],
   plugins |-> WebBasePlugins
               \o << Plugin("DefinePlugin"), Plugin("MinifyPlugin"),
                     Plugin("ExtractTextPlugin") >>]

\* if (IS_WEB) { ... else { ... } }
WebProdConfig ==
  [entry |-> [client |-> << <<"appClientIndexJs">> >>],
   output |-> [path |-> "appBuildPublic",
               publicPath |-> <<"/">>,
               filename |-> <<"static/js/", "[name]", ".", "[chunkhash:8]", ".js">>,
               chunkFilename |-> <<"static/js/", "[name]", ".",
                                   "[chunkhash:8]", ".chunk.js">>],
   plugins |-> WebBasePlugins
               \o << Plugin("DefinePlugin"), Plugin("MinifyPlugin"),
                     Plugin("ExtractTextPlugin") >>]

\* adds a key to a configuration, replacing the one it has
Assign(config, key, value) ==
  [k \in (DOMAIN config) \cup {key} |-> IF k = key THEN value ELSE config[k]]

\* The factory. penv is process.env at the call, hasBabelRc the answer of
\* fs.existsSync(paths.appBabelRc), cache the require cache entry of ../babel.
\* The result tells whether the call threw, the configuration returned, and
\* process.env.NODE_ENV and the cache entry after the call.
createConfig(target, envArg, options, penv, hasBabelRc, cache) ==
  LET opts == OptionDefaults(options)
      mustLoad == ~hasBabelRc /\ cache = Undefined
      threw == mustLoad /\ BabelThrows(penv)
      preset == IF cache = Undefined THEN BabelPreset(penv) ELSE cache
      mainBabelOptions ==
        [babelrc |-> TRUE, cacheDirectory |-> TRUE,
         presets |-> IF hasBabelRc THEN <<>> ELSE <<preset>>]
      IS_NODE == target = "node"
      IS_WEB == target = "web"
      IS_PROD == envArg = "prod"
      IS_DEV == envArg = "dev"
      nodeEnv == IF IS_PROD THEN "production" ELSE "development"
      dotenv == getEnv(target, opts, [penv EXCEPT !.NODE_ENV = nodeEnv])
      devServerPort == PlusOne(ParseInt(dotenv.raw.PORT, 10))
      base == BaseConfig(target, IS_NODE, IS_DEV, IS_PROD, mainBabelOptions)
      branch == IF IS_NODE THEN NodeConfig(IS_DEV, dotenv, devServerPort)
                ELSE IF IS_DEV THEN WebDevConfig(dotenv, devServerPort)
                ELSE WebProdConfig
      built == branch @@ base
      config == IF IS_DEV
                THEN Assign(built, "plugins",
                            Append(built.plugins,
                                   Plugin("FriendlyErrorsPlugin")))
                ELSE built
  IN IF threw
     THEN [threw |-> TRUE, config |-> Undefined,
           NODE_ENV |-> penv.NODE_ENV, babelModule |-> cache]
     ELSE [threw |-> FALSE, config |-> config,
           NODE_ENV |-> nodeEnv,
           babelModule |-> IF hasBabelRc THEN cache ELSE preset]

(***************************************************************************)
(* The initial state: a fresh process                                      *)
(***************************************************************************)
\* everything but process.env
Fresh ==
  /\ babelModule = Undefined
  /\ pc = "start"
  /\ blitz = NoOptions
  /\ clientConfig = Undefined
  /\ serverConfig = Undefined
  /\ serverCompiler = Undefined
  /\ clientCompiler = Undefined
  /\ clientDevServer = Undefined
  /\ listenPort = Undefined
  /\ firstCompile = {}
  /\ configFile = "unknown"
  /\ exitCode = 0
  /\ trace = <<>>
  /\ calls = 0
  /\ lastCall = Undefined
  /\ result = Undefined

Init ==
  /\ env \in [NODE_ENV : EnvFlags, BABEL_ENV : EnvFlags, PORT : PortStrings]
  /\ Fresh

(***************************************************************************)
(* FactorySpec: a process that calls the factory                           *)
(***************************************************************************)
\* what a modify hook does: there is none, it returns its argument, it
\* returns an object of its own, or it throws
ModifyKinds == {"none", "identity", "sentinel", "throws"}

\* the objects a user config file exports: the keys port, host and
\* clearConsole present or absent, with each kind of modify hook
UserConfigs ==
  { [clearConsole |-> IF custom THEN JBool(FALSE) ELSE Undefined,
     host |-> IF custom THEN JText("0.0.0.0") ELSE Undefined,
     port |-> port,
     modify |-> modify] :
    custom \in BOOLEAN, port \in {Undefined, JNum(4000)},
    modify \in ModifyKinds }

\* the option objects FactorySpec passes: no key or every key, without and
\* with a modify hook
OptionObjects ==
  {o \in UserConfigs : /\ o.modify \in {"none", "sentinel"}
                       /\ (o.port = Undefined) = (o.host = Undefined)}

\* the PORT values FactorySpec starts from
FactoryPorts == {<<>>, <<"8", "0">>}

\* the object a "sentinel" hook returns
Sentinel(target) == [sentinel |-> target]

\* one call of the factory
CallFactory(target, envArg, options, hasBabelRc) ==
  LET r == createConfig(target, envArg, options, env, hasBabelRc, babelModule)
  IN /\ calls < MaxCalls
     /\ calls' = calls + 1
     /\ lastCall' = [target |-> target, env |-> envArg, options |-> options,
                     hasBabelRc |-> hasBabelRc, flag |-> BabelEnv(env),
                     loaded |-> babelModule # Undefined]
     /\ result' = [threw |-> r.threw, config |-> r.config]
     /\ env' = [env EXCEPT !.NODE_ENV = r.NODE_ENV]
     /\ babelModule' = r.babelModule
     /\ UNCHANGED scriptVars

\* the calling code assigns an environment flag between two calls, as the
\* dev script does before its first call
AssignEnv(name, value) ==
  /\ 0 < calls
  /\ calls < MaxCalls
  /\ env' = [env EXCEPT ![name] = value]
  /\ UNCHANGED <<babelModule, calls, lastCall, result>>
  /\ UNCHANGED scriptVars

FactoryNext ==
  \/ \E target \in Targets, envArg \in Envs, hasBabelRc \in BOOLEAN :
       \E options \in OptionObjects :
         CallFactory(target, envArg, options, hasBabelRc)
  \/ \E name \in {"NODE_ENV", "BABEL_ENV"}, value \in EnvFlags :
       AssignEnv(name, value)

FactoryInit ==
  /\ env \in [NODE_ENV : EnvFlags, BABEL_ENV : EnvFlags, PORT : FactoryPorts]
  /\ Fresh

FactorySpec == FactoryInit /\ [][FactoryNext]_vars

(***************************************************************************)
(* Spec: the dev orchestration script                                      *)
(***************************************************************************)
\* config.key, undefined when the object has no such key
Get(config, key) == IF key \in DOMAIN config THEN config[key] ELSE Undefined

\* the hook's return value is dropped
Modify_Dropped(kind, config, target) == config

\* what the user's modify hook returns for (config, {target, dev: true})
Modify(kind, config, target) ==
  IF kind = "sentinel" THEN Sentinel(target) ELSE config

Log(event) == trace' = Append(trace, event)

\* the positions in the trace of the calls of one kind for one target
Idx(op, target) ==
  {i \in DOMAIN trace : trace[i].op = op /\ trace[i].target = target}

\* an uncaught exception ends the process
Crash ==
  /\ pc' = "crashed"
  /\ exitCode' = 1

\* process.exit(1)
Exit ==
  /\ pc' = "exited"
  /\ exitCode' = 1

\* process.env.NODE_ENV = 'development'
SetNodeEnv ==
  /\ pc = "start"
  /\ env' = [env EXCEPT !.NODE_ENV = "development"]
  /\ pc' = "loadConfig"
  /\ UNCHANGED <<babelModule, blitz, clientConfig, serverConfig,
                 serverCompiler, clientCompiler, clientDevServer, listenPort,
                 firstCompile, configFile, exitCode, trace>>
  /\ UNCHANGED factoryVars

\* the file is required without the fs.existsSync check
LoadBlitzConfig_NoExistsCheck(exists, throws, exported) ==
  /\ pc = "loadConfig"
  /\ IF ~exists \/ throws
     THEN /\ configFile' = IF exists THEN "invalid" ELSE "missing"
          /\ Exit
          /\ Log([op |-> "logger.error", target |-> "none"])
          /\ UNCHANGED blitz
     ELSE /\ configFile' = "loaded"
          /\ blitz' = exported
          /\ pc' = "createClient"
          /\ UNCHANGED <<exitCode, trace>>
  /\ UNCHANGED <<env, babelModule, clientConfig, serverConfig,
                 serverCompiler, clientCompiler, clientDevServer, listenPort,
                 firstCompile>>
  /\ UNCHANGED factoryVars

\* if (fs.existsSync(paths.appBlitzConfig)) { try { blitz = require(...) }
\* catch (e) { ...; process.exit(1) } }
LoadBlitzConfig(exists, throws, exported) ==
  /\ pc = "loadConfig"
  /\ IF ~exists
     THEN /\ configFile' = "missing"
          /\ pc' = "createClient"
          /\ UNCHANGED <<blitz, exitCode, trace>>
     ELSE IF throws
     THEN /\ configFile' = "invalid"
          /\ Exit
          /\ Log([op |-> "logger.error", target |-> "none"])
          /\ UNCHANGED blitz
     ELSE /\ configFile' = "loaded"
          /\ blitz' = exported
          /\ pc' = "createClient"
          /\ UNCHANGED <<exitCode, trace>>
  /\ UNCHANGED <<env, babelModule, clientConfig, serverConfig,
                 serverCompiler, clientCompiler, clientDevServer, listenPort,
                 firstCompile>>
  /\ UNCHANGED factoryVars

\* let clientConfig = createConfig('web', 'dev', blitz)
CreateClientConfig(hasBabelRc) ==
  LET r == createConfig("web", "dev", blitz, env, hasBabelRc, babelModule)
  IN /\ pc = "createClient"
     /\ IF r.threw
        THEN /\ Crash
             /\ Log([op |-> "createConfig", target |-> "web",
                     options |-> blitz, threw |-> TRUE])
             /\ UNCHANGED <<env, babelModule, clientConfig>>
        ELSE /\ clientConfig' = r.config
             /\ env' = [env EXCEPT !.NODE_ENV = r.NODE_ENV]
             /\ babelModule' = r.babelModule
             /\ pc' = "createServer"
             /\ Log([op |-> "createConfig", target |-> "web",
                     options |-> blitz, threw |-> FALSE,
                     config |-> r.config])
             /\ UNCHANGED exitCode
     /\ UNCHANGED <<blitz, serverConfig, serverCompiler, clientCompiler,
                    clientDevServer, listenPort, firstCompile, configFile>>
     /\ UNCHANGED factoryVars

\* let serverConfig = createConfig('node', 'dev', blitz)
CreateServerConfig(hasBabelRc) ==
  LET r == createConfig("node", "dev", blitz, env, hasBabelRc, babelModule)
  IN /\ pc = "createServer"
     /\ IF r.threw
        THEN /\ Crash
             /\ Log([op |-> "createConfig", target |-> "node",
                     options |-> blitz, threw |-> TRUE])
             /\ UNCHANGED <<env, babelModule, serverConfig>>
        ELSE /\ serverConfig' = r.config
             /\ env' = [env EXCEPT !.NODE_ENV = r.NODE_ENV]
             /\ babelModule' = r.babelModule
             /\ pc' = "modifyClient"
             /\ Log([op |-> "createConfig", target |-> "node",
                     options |-> blitz, threw |-> FALSE,
                     config |-> r.config])
             /\ UNCHANGED exitCode
     /\ UNCHANGED <<blitz, clientConfig, serverCompiler, clientCompiler,
                    clientDevServer, listenPort, firstCompile, configFile>>
     /\ UNCHANGED factoryVars

\* if (blitz.modify) { clientConfig = blitz.modify(clientConfig, ...)
ModifyClient ==
  /\ pc = "modifyClient"
  /\ IF blitz.modify = "none"
     THEN /\ pc' = "compileServer"
          /\ UNCHANGED <<clientConfig, exitCode, trace>>
     ELSE IF blitz.modify = "throws"
     THEN /\ Crash
          /\ Log([op |-> "modify", target |-> "web", dev |-> TRUE,
                  config |-> clientConfig, threw |-> TRUE])
          /\ UNCHANGED clientConfig
     ELSE /\ clientConfig' = Modify(blitz.modify, clientConfig, "web")
          /\ pc' = "modifyServer"
          /\ Log([op |-> "modify", target |-> "web", dev |-> TRUE,
                  config |-> clientConfig, threw |-> FALSE,
                  returned |-> Modify(blitz.modify, clientConfig, "web")])
          /\ UNCHANGED exitCode
  /\ UNCHANGED <<env, babelModule, blitz, serverConfig, serverCompiler,
                 clientCompiler, clientDevServer, listenPort, firstCompile,
                 configFile>>
  /\ UNCHANGED factoryVars

\* the hook is applied to the client configuration alone
ModifyServer_Skipped ==
  /\ pc = "modifyServer"
  /\ pc' = "compileServer"
  /\ UNCHANGED <<env, babelModule, blitz, clientConfig, serverConfig,
                 serverCompiler, clientCompiler, clientDevServer, listenPort,
                 firstCompile, configFile, exitCode, trace>>
  /\ UNCHANGED factoryVars

\* serverConfig = blitz.modify(serverConfig, ...) }
ModifyServer ==
  /\ pc = "modifyServer"
  /\ IF blitz.modify = "throws"
     THEN /\ Crash
          /\ Log([op |-> "modify", target |-> "node", dev |-> TRUE,
                  config |-> serverConfig, threw |-> TRUE])
          /\ UNCHANGED serverConfig
     ELSE /\ serverConfig' = Modify(blitz.modify, serverConfig, "node")
          /\ pc' = "compileServer"
          /\ Log([op |-> "modify", target |-> "node", dev |-> TRUE,
                  config |-> serverConfig, threw |-> FALSE,
                  returned |-> Modify(blitz.modify, serverConfig, "node")])
          /\ UNCHANGED exitCode
  /\ UNCHANGED <<env, babelModule, blitz, clientConfig, serverCompiler,
                 clientCompiler, clientDevServer, listenPort, firstCompile,
                 configFile>>
  /\ UNCHANGED factoryVars

\* the catch block logs and returns, without process.exit(1)
compile_NoExit(config, throws) ==
  [exited |-> FALSE,
   compiler |-> IF throws THEN Undefined
                ELSE [config |-> config, watching |-> FALSE]]

\* function compile(config): the compiler, or Undefined after process.exit(1)
compile(config, throws) ==
  IF throws THEN [exited |-> TRUE, compiler |-> Undefined]
  ELSE [exited |-> FALSE,
        compiler |-> [config |-> config, watching |-> FALSE]]

\* const serverCompiler = compile(serverConfig)
CompileServer(throws) ==
  LET c == compile(serverConfig, throws)
  IN /\ pc = "compileServer"
     /\ IF c.exited
        THEN /\ Exit
             /\ trace' = trace \o
                  << [op |-> "webpack", target |-> "node",
                      config |-> serverConfig, threw |-> throws],
                     [op |-> "printErrors", target |-> "node"] >>
             /\ UNCHANGED serverCompiler
        ELSE /\ serverCompiler' = c.compiler
             /\ pc' = "watch"
             /\ Log([op |-> "webpack", target |-> "node",
                     config |-> serverConfig, threw |-> throws])
             /\ UNCHANGED exitCode
     /\ UNCHANGED <<env, babelModule, blitz, clientConfig, serverConfig,
                    clientCompiler, clientDevServer, listenPort, firstCompile,
                    configFile>>
     /\ UNCHANGED factoryVars

\* serverCompiler.watch({ quiet: true, stats: 'none' }, stats => {})
Watch ==
  /\ pc = "watch"
  /\ serverCompiler' = [serverCompiler EXCEPT !.watching = TRUE]
  /\ pc' = "compileClient"
  /\ Log([op |-> "watch", target |-> "node"])
  /\ UNCHANGED <<env, babelModule, blitz, clientConfig, serverConfig,
                 clientCompiler, clientDevServer, listenPort, firstCompile,
                 configFile, exitCode>>
  /\ UNCHANGED factoryVars

\* const clientCompiler = compile(clientConfig)
CompileClient(throws) ==
  LET c == compile(clientConfig, throws)
  IN /\ pc = "compileClient"
     /\ IF c.exited
        THEN /\ Exit
             /\ trace' = trace \o
                  << [op |-> "webpack", target |-> "web",
                      config |-> clientConfig, threw |-> throws],
                     [op |-> "printErrors", target |-> "web"] >>
             /\ UNCHANGED clientCompiler
        ELSE /\ clientCompiler' = c.compiler
             /\ pc' = "newDevServer"
             /\ Log([op |-> "webpack", target |-> "web",
                     config |-> clientConfig, threw |-> throws])
             /\ UNCHANGED exitCode
     /\ UNCHANGED <<env, babelModule, blitz, clientConfig, serverConfig,
                    serverCompiler, clientDevServer, listenPort, firstCompile,
                    configFile>>
     /\ UNCHANGED factoryVars

\* const clientDevServer = new devServer(clientCompiler, clientConfig.devServer)
NewDevServer ==
  /\ pc = "newDevServer"
  /\ clientDevServer' = [compiler |-> clientCompiler,
                         options |-> Get(clientConfig, "devServer")]
  /\ pc' = "listen"
  /\ Log([op |-> "devServer", target |-> "web"])
  /\ UNCHANGED <<env, babelModule, blitz, clientConfig, serverConfig,
                 serverCompiler, clientCompiler, listenPort, firstCompile,
                 configFile, exitCode>>
  /\ UNCHANGED factoryVars

\* (process.env.PORT && parseInt(process.env.PORT) + 1) || blitz.port || 3001
ListenPort(penv, options) ==
  LET port == JStr(penv.PORT)
      first == IF Truthy(port) THEN PlusOne(ParseInt(port, 0)) ELSE port
  IN Or(Or(first, options.port), JNum(3001))

\* clientDevServer.listen(port, err => { ... })
Listen ==
  /\ pc = "listen"
  /\ listenPort' = ListenPort(env, blitz)
  /\ pc' = "done"
  /\ Log([op |-> "listen", target |-> "web"])
  /\ UNCHANGED <<env, babelModule, blitz, clientConfig, serverConfig,
                 serverCompiler, clientCompiler, clientDevServer,
                 firstCompile, configFile, exitCode>>
  /\ UNCHANGED factoryVars

\* err => { if (err) { logger.error(err) } }
ListenCallback(err) ==
  /\ pc = "done"
  /\ Idx("listenCallback", "web") = {}
  /\ trace' = trace \o << [op |-> "listenCallback", target |-> "web"] >>
                    \o (IF err THEN << [op |-> "logger.error",
                                        target |-> "web"] >>
                        ELSE <<>>)
  /\ UNCHANGED <<env, babelModule, pc, blitz, clientConfig, serverConfig,
                 serverCompiler, clientCompiler, clientDevServer, listenPort,
                 firstCompile, configFile, exitCode>>
  /\ UNCHANGED factoryVars

\* The bundler finishes the first compile of one of the two bundles. Its
\* callbacks run from the event loop, which the script's synchronous run to
\* its last statement precedes.
FirstCompileDone(target) ==
  /\ pc = "done"
  /\ target \notin firstCompile
  /\ firstCompile' = firstCompile \cup {target}
  /\ UNCHANGED <<env, babelModule, pc, blitz, clientConfig, serverConfig,
                 serverCompiler, clientCompiler, clientDevServer, listenPort,
                 configFile, exitCode, trace>>
  /\ UNCHANGED factoryVars

Next ==
  \/ SetNodeEnv
  \/ \E exists \in BOOLEAN, throws \in BOOLEAN, exported \in UserConfigs :
       LoadBlitzConfig(exists, throws, exported)
  \/ \E hasBabelRc \in BOOLEAN : CreateClientConfig(hasBabelRc)
  \/ \E hasBabelRc \in BOOLEAN : CreateServerConfig(hasBabelRc)
  \/ ModifyClient
  \/ ModifyServer
  \/ \E throws \in BOOLEAN : CompileServer(throws)
  \/ Watch
  \/ \E throws \in BOOLEAN : CompileClient(throws)
  \/ NewDevServer
  \/ Listen
  \/ \E err \in BOOLEAN : ListenCallback(err)
  \/ \E target \in Targets : FirstCompileDone(target)

Spec == Init /\ [][Next]_vars

(***************************************************************************)
(* Properties of the factory, checked under FactorySpec                    *)
(***************************************************************************)
\* the last call returned a configuration
Returned == result # Undefined /\ ~result.threw

InSeq(x, seq) == \E i \in DOMAIN seq : seq[i] = x

HashPlaceholders ==
  {"[hash]", "[hash:8]", "[chunkhash]", "[chunkhash:8]",
   "[contenthash]", "[contenthash:8]"}

HasHash(pattern) == \E i \in DOMAIN pattern : pattern[i] \in HashPlaceholders

\* C2, as stated: every configuration has one output.filename; it holds no
\* hash placeholder in dev and holds one in prod, for web and for node alike.
C2_HashInEveryProdFilename ==
  Returned =>
    /\ "filename" \in DOMAIN result.config.output
    /\ lastCall.env = "dev" => ~HasHash(result.config.output.filename)
    /\ lastCall.env = "prod" => HasHash(result.config.output.filename)

\* C2, amended: every configuration has one output.filename; it holds a
\* hash placeholder exactly for web in prod, and the node bundle is named
\* server.js in dev and in prod.
C2_HashOnlyInWebProdFilename ==
  Returned =>
    /\ "filename" \in DOMAIN result.config.output
    /\ HasHash(result.config.output.filename)
         <=> (lastCall.target = "web" /\ lastCall.env = "prod")
    /\ lastCall.target = "node"
         => result.config.output.filename = <<"server.js">>

C2_Witness ==
  /\ Returned
  /\ lastCall.target = "node"
  /\ lastCall.env = "prod"
  /\ result.config.output.filename = <<"server.js">>

\* C4, as stated: a call made while the flag BABEL_ENV || NODE_ENV is none
\* of development, test and production throws, whatever the call.
C4_InvalidFlagAlwaysThrows ==
  (lastCall # Undefined /\ lastCall.flag \notin ValidBabelEnvs)
    => result.threw

\* C4, amended: such a call throws when no .babelrc exists and the preset
\* module is not yet in the require cache; with a .babelrc, or with the
\* preset cached by an earlier call, it returns a configuration.
C4_InvalidFlagThrowsOnPresetLoad ==
  (lastCall # Undefined /\ lastCall.flag \notin ValidBabelEnvs)
    => (result.threw <=> (~lastCall.hasBabelRc /\ ~lastCall.loaded))

C4_Witness ==
  /\ calls >= 2
  /\ lastCall.flag \notin ValidBabelEnvs
  /\ ~lastCall.hasBabelRc
  /\ ~lastCall.loaded
  /\ result.threw
  /\ result.config = Undefined

AssetPatterns ==
  {"\\.(eot|woff|woff2|ttf|otf)$", "\\.(svg|png|jpg|jpeg|gif|ico)$",
   "\\.(mp4|mp3|ogg|swf|webp)$", "\\.(css|scss|sass|sss|less)$"}

\* C5: the node whitelist holds the four asset patterns in dev and in prod,
\* the hot-poll module in dev only and no null entry; web has no externals.
C5_ExternalsWhitelist ==
  Returned =>
    IF lastCall.target = "node"
    THEN LET w == result.config.externals[1].nodeExternals.whitelist
         IN /\ Len(result.config.externals) = 1
            /\ \A a \in AssetPatterns : InSeq(a, w)
            /\ InSeq("webpack/hot/poll?300", w) <=> lastCall.env = "dev"
            /\ ~InSeq("null", w)
            /\ Len(w) = IF lastCall.env = "dev" THEN 5 ELSE 4
    ELSE "externals" \notin DOMAIN result.config

C5_Witness ==
  /\ Returned
  /\ lastCall.target = "node"
  /\ lastCall.env = "prod"
  /\ Len(result.config.externals[1].nodeExternals.whitelist) = 4

HasPlugin(config, name) == InSeq(Plugin(name), config.plugins)

\* C8: web in dev has the entries dev-server client, hot-reload client and
\* the user's entry, in that order, and both hot plugins; web in prod has
\* the user's entry alone and neither plugin.
C8_WebEntriesAndHotPlugins ==
  (Returned /\ lastCall.target = "web") =>
    LET client == result.config.entry.client
    IN IF lastCall.env = "dev"
       THEN /\ Len(client) = 3
            /\ client[1][1] = "http://"
            /\ client[1][5] = "webpack-dev-server/client"
            /\ client[2] = <<"webpack/hot/dev-server">>
            /\ client[3] = <<"appClientIndexJs">>
            /\ HasPlugin(result.config, "HotModuleReplacementPlugin")
            /\ HasPlugin(result.config, "NoEmitOnErrorsPlugin")
       ELSE /\ client = << <<"appClientIndexJs">> >>
            /\ ~HasPlugin(result.config, "HotModuleReplacementPlugin")
            /\ ~HasPlugin(result.config, "NoEmitOnErrorsPlugin")

C8_Witness ==
  /\ Returned
  /\ lastCall.target = "web"
  /\ lastCall.env = "dev"
  /\ Len(result.config.entry.client) = 3
  /\ Len(result.config.plugins) = 7

\* the `use` of the rule for a file extension
UseOf(config, test) ==
  LET i == CHOOSE j \in DOMAIN config.module.rules :
             Get(config.module.rules[j], "test") = test
  IN config.module.rules[i].use

\* a chain without style injection and without the extract plugin
Inlined(use) ==
  /\ use.kind = "chain"
  /\ ~InSeq(StyleLoader, use.use)

\* C9: the .css and the .scss rule choose alike among three policies: node
\* never injects nor extracts and has one chain for dev and prod, web in dev
\* starts with the style loader, web in prod is the extract wrapper.
C9_StyleLoaderPolicies ==
  Returned =>
    LET css == UseOf(result.config, JText("\\.css$"))
        scss == UseOf(result.config, JText("\\.scss$"))
    IN CASE lastCall.target = "node" ->
              /\ Inlined(css)
              /\ Inlined(scss)
              /\ css.use = << [loader |-> "css-loader",
                               options |-> [importLoaders |-> 1]] >>
              /\ scss.use = << [loader |-> "css-loader",
                                options |-> [minimize |-> TRUE]],
                               [loader |-> "postcss-loader",
                                options |-> [ident |-> "postcss"]],
                               [loader |-> "sass-loader"] >>
         [] lastCall.target = "web" /\ lastCall.env = "dev" ->
              /\ css.kind = "chain" /\ css.use[1] = StyleLoader
              /\ scss.kind = "chain" /\ scss.use[1] = StyleLoader
         [] OTHER ->
              /\ css.kind = "extract"
              /\ scss.kind = "extract"

C9_Witness ==
  /\ Returned
  /\ lastCall.target = "node"
  /\ lastCall.env = "dev"
  /\ Len(UseOf(result.config, JText("\\.scss$")).use) = 3

(***************************************************************************)
(* Properties of the dev orchestration script, checked under Spec          *)
(***************************************************************************)
Stopped == pc \in {"exited", "crashed"}

\* a PORT that reads as a positive decimal number
PortNumeral(s) ==
  /\ s # <<>>
  /\ \A i \in DOMAIN s : DigitVal(s[i]) < 10
  /\ s[1] # "0"

\* the port the application declares: PORT, else the port option, else 3000
DeclaredPort ==
  IF env.PORT # <<>> THEN ParseInt(JStr(env.PORT), 10)
  ELSE IF blitz.port # Undefined THEN blitz.port
  ELSE JNum(3000)

\* C1: the port the client dev-server listens on is the declared port + 1,
\* differs from the declared port and is the devServer.port the factory
\* computed, with PORT set or unset and the port option present or absent.
C1_ListenPortIsDeclaredPortPlusOne ==
  (listenPort # Undefined /\ (env.PORT = <<>> \/ PortNumeral(env.PORT))) =>
    /\ listenPort = PlusOne(DeclaredPort)
    /\ listenPort # DeclaredPort
    /\ \A i \in Idx("createConfig", "web") :
         listenPort = trace[i].config.devServer.port

\* C3, as stated: a factory call whose options hold a sentinel-returning
\* modify hook returns the sentinel.
C3_FactoryReturnsHookValue ==
  \A t \in Targets : \A i \in Idx("createConfig", t) :
    (~trace[i].threw /\ trace[i].options.modify = "sentinel")
      => trace[i].config = Sentinel(t)

\* C3, amended: the factory returns its own configuration whatever the
\* modify key holds, and the script replaces each configuration by what the
\* hook returns for it: the sentinel, for a sentinel-returning hook.
C3_ScriptUsesHookValue ==
  /\ \A t \in Targets : \A i \in Idx("createConfig", t) :
       ~trace[i].threw =>
         /\ "target" \in DOMAIN trace[i].config
         /\ trace[i].config.target = t
  /\ blitz.modify = "sentinel" =>
       /\ pc \in {"modifyServer", "compileServer", "watch", "compileClient",
                  "newDevServer", "listen", "done"}
            => clientConfig = Sentinel("web")
       /\ pc \in {"compileServer", "watch", "compileClient", "newDevServer",
                  "listen", "done"}
            => serverConfig = Sentinel("node")

C3_Witness ==
  /\ blitz.modify = "sentinel"
  /\ pc = "done"
  /\ clientConfig = Sentinel("web")
  /\ serverConfig = Sentinel("node")
  /\ serverCompiler.config = Sentinel("node")

\* C6: a throwing user config file, and a throwing bundler construction,
\* are logged and end the process with a non-zero exit code before any
\* later step: after the first no configuration is built, after a failed
\* server compiler no watch starts and the dev-server never listens.
C6_FatalErrorsStopStartup ==
  /\ configFile = "invalid" =>
       /\ pc = "exited"
       /\ exitCode # 0
       /\ trace = << [op |-> "logger.error", target |-> "none"] >>
       /\ clientConfig = Undefined
       /\ serverConfig = Undefined
       /\ serverCompiler = Undefined
       /\ clientCompiler = Undefined
       /\ listenPort = Undefined
  /\ \A t \in Targets : \A i \in Idx("webpack", t) :
       trace[i].threw =>
         /\ pc = "exited"
         /\ exitCode # 0
         /\ Len(trace) = i + 1
         /\ trace[i + 1].op = "printErrors"
         /\ clientCompiler = Undefined
         /\ clientDevServer = Undefined
         /\ listenPort = Undefined
         /\ t = "node" => /\ serverCompiler = Undefined
                          /\ Idx("watch", "node") = {}

C6_Witness ==
  /\ pc = "exited"
  /\ exitCode = 1
  /\ \E i \in Idx("webpack", "node") : trace[i].threw
  /\ serverCompiler = Undefined
  /\ listenPort = Undefined

\* what C7 says of the calls made when the user config file is missing:
\* no config-load error, empty options and the defaults they imply, no
\* modify hook, the factory's configurations handed on unchanged
MissingConfigCalls ==
  /\ blitz = NoOptions
  /\ Idx("logger.error", "none") = {}
  /\ \A t \in Targets :
       /\ Idx("modify", t) = {}
       /\ \A i \in Idx("createConfig", t) :
            /\ trace[i].options = NoOptions
            /\ OptionDefaults(trace[i].options)
                 = [clearConsole |-> JBool(TRUE), host |-> JText("localhost"),
                    port |-> JNum(3000)]
       /\ \A j \in Idx("webpack", t) : \E i \in Idx("createConfig", t) :
            /\ ~trace[i].threw
            /\ trace[j].config = trace[i].config
  /\ serverCompiler # Undefined => serverCompiler.config = serverConfig
  /\ clientCompiler # Undefined => clientCompiler.config = clientConfig

\* C7, as stated: with the user config file missing the script does not
\* error and reaches the server watch and the dev-server listen.
C7_MissingConfigNeverErrors ==
  configFile = "missing" =>
    /\ MissingConfigCalls
    /\ ~Stopped
    /\ exitCode = 0
    /\ pc = "done" => (serverCompiler.watching /\ listenPort # Undefined)

\* C7, amended: with the user config file missing the script makes the
\* calls above and goes on to the server watch and the dev-server listen,
\* unless the factory throws on the environment flag or the construction of
\* a bundler fails, which end the process as they do with a config file.
C7_MissingConfigUsesDefaults ==
  configFile = "missing" =>
    /\ MissingConfigCalls
    /\ Stopped =>
         \/ /\ trace[Len(trace)].op = "createConfig"
            /\ trace[Len(trace)].threw
         \/ trace[Len(trace)].op = "printErrors"
    /\ pc = "done" => (serverCompiler.watching /\ listenPort # Undefined)

C7_Witness ==
  /\ configFile = "missing"
  /\ pc = "done"
  /\ exitCode = 0
  /\ serverCompiler.watching
  /\ clientDevServer.options.port = JNum(3001)
  /\ listenPort = JNum(3001)

\* C10: with a modify hook, the hook runs once per target after both
\* factory calls and before any compiler is constructed, on the factory's
\* configuration for the target and with dev true; compilers and dev-server
\* descriptor come from what it returned; the server watch starts before the
\* client compiler is built and before the dev-server listens, and both
\* starts are made before either first compile completes.
C10_HookOrderAndHandOff ==
  /\ \A t \in Targets :
       /\ Cardinality(Idx("modify", t)) <= 1
       /\ \A i \in Idx("modify", t) :
            /\ blitz.modify # "none"
            /\ trace[i].dev = TRUE
            /\ \A u \in Targets :
                 /\ \E j \in Idx("createConfig", u) :
                      j < i /\ ~trace[j].threw
                 /\ \A j \in Idx("webpack", u) : i < j
            /\ \E j \in Idx("createConfig", t) :
                 ~trace[j].threw /\ trace[i].config = trace[j].config
       /\ \A j \in Idx("webpack", t) :
            IF blitz.modify = "none"
            THEN Idx("modify", t) = {}
            ELSE /\ \A u \in Targets : Cardinality(Idx("modify", u)) = 1
                 /\ \E i \in Idx("modify", t) :
                      /\ ~trace[i].threw
                      /\ trace[j].config = trace[i].returned
  /\ (blitz.modify # "none" /\ serverCompiler # Undefined) =>
       \E i \in Idx("modify", "node") :
         serverCompiler.config = trace[i].returned
  /\ (blitz.modify # "none" /\ clientDevServer # Undefined) =>
       \E i \in Idx("modify", "web") :
         /\ clientDevServer.compiler.config = trace[i].returned
         /\ clientDevServer.options = Get(trace[i].returned, "devServer")
  /\ \A i \in Idx("webpack", "web") \cup Idx("listen", "web") :
       \E j \in Idx("watch", "node") : j < i
  /\ pc # "done" => firstCompile = {}

C10_Witness ==
  /\ blitz.modify = "sentinel"
  /\ pc = "done"
  /\ firstCompile = {"web"}
  /\ Cardinality(Idx("modify", "web")) = 1
  /\ Cardinality(Idx("modify", "node")) = 1
  /\ clientDevServer.options = Undefined

====
